---- MODULE Spec2Model ----
(***************************************************************************)
(* Model of rwslib.builders.core.ODM: the root builder of a CDISC ODM      *)
(* document.  One ODM instance is constructed, its guarded properties are  *)
(* assigned, children are attached with <<, and the tree is rendered.      *)
(***************************************************************************)
EXTENDS Integers, Sequences, FiniteSets, TLC

\* ------------------------------------------------------------------------
\* Bounds
\* ------------------------------------------------------------------------
\* number of distinct Study objects that may be attached
NumObj == 2
\* an attachment that would make the ClinicalData list longer than this is
\* not explored
MaxClinical == 3
\* consecutive renders are counted up to this number
MaxRenders == 2

\* ------------------------------------------------------------------------
\* Python values.  Every value is a record of the same shape so that values
\* of different Python types can be compared: t is the type, s the text of
\* a str (or the name of an enum member), n the integer parts.
\* ------------------------------------------------------------------------
PyNone == [t |-> "NoneType", s |-> "", n |-> <<>>]
PyStr(x) == [t |-> "str", s |-> x, n |-> <<>>]
PyInt(k) == [t |-> "int", s |-> "", n |-> <<k>>]
PyDate(y, m, d) == [t |-> "date", s |-> "", n |-> <<y, m, d>>]
PyDateTime(y, m, d, hh, mm, ss, us) ==
    [t |-> "datetime", s |-> "", n |-> <<y, m, d, hh, mm, ss, us>>]
Granularity(member) == [t |-> "GranularityType", s |-> member, n |-> <<>>]
Obj(cls, i) == [t |-> cls, s |-> "", n |-> <<i>>]

\* Python truth value: None, "" and 0 are false; dates, enum members and
\* plain objects are true.
Truthy(v) ==
    CASE v.t = "NoneType" -> FALSE
      [] v.t = "str" -> v.s # ""
      [] v.t = "int" -> v.n[1] # 0
      [] OTHER -> TRUE

\* isinstance(v, (datetime.datetime, datetime.date)); datetime is a subclass
\* of date.
IsDate(v) == v.t \in {"date", "datetime"}
IsGranularityType(v) == v.t = "GranularityType"
IsClinicalData(v) == v.t = "ClinicalData"
IsStudy(v) == v.t = "Study"
IsAdminData(v) == v.t = "AdminData"

\* ------------------------------------------------------------------------
\* date.isoformat() / datetime.isoformat()
\* ------------------------------------------------------------------------
DigitStr(d) == <<"0", "1", "2", "3", "4", "5", "6", "7", "8", "9">>[d + 1]

RECURSIVE Pad(_, _)
\* the decimal text of k, zero-padded to w digits
Pad(k, w) == IF w = 0 THEN "" ELSE Pad(k \div 10, w - 1) \o DigitStr(k % 10)

\* str(value): the separator between date and time is a blank
pystr(v) ==
    LET d == Pad(v.n[1], 4) \o "-" \o Pad(v.n[2], 2) \o "-" \o Pad(v.n[3], 2)
    IN  IF v.t = "date" THEN d
        ELSE d \o " " \o Pad(v.n[4], 2) \o ":" \o Pad(v.n[5], 2) \o ":" \o Pad(v.n[6], 2)
               \o (IF v.n[7] = 0 THEN "" ELSE "." \o Pad(v.n[7], 6))

isoformat(v) ==
    LET d == Pad(v.n[1], 4) \o "-" \o Pad(v.n[2], 2) \o "-" \o Pad(v.n[3], 2)
    IN  IF v.t = "date" THEN d
        ELSE d \o "T" \o Pad(v.n[4], 2) \o ":" \o Pad(v.n[5], 2) \o ":" \o Pad(v.n[6], 2)
               \o (IF v.n[7] = 0 THEN "" ELSE "." \o Pad(v.n[7], 6))

\* ------------------------------------------------------------------------
\* Class constants and error messages
\* ------------------------------------------------------------------------
FILETYPE_TRANSACTIONAL == PyStr("Transactional")
FILETYPE_SNAPSHOT == PyStr("Snapshot")
VALID_ODM_VERSIONS == <<PyStr("1.2"), PyStr("1.2.1"), PyStr("1.3"), PyStr("1.3.1"), PyStr("1.3.2")>>
\* value in self.VALID_ODM_VERSIONS
InValidVersions(v) == \E i \in DOMAIN VALID_ODM_VERSIONS : VALID_ODM_VERSIONS[i] = v

NoErr == ""
ErrVersion == "ValueError: No such supported ODMVersion"
ErrAsOf == "ValueError: Unexpected format for AsOfDateTime"
ErrGranularity == "ValueError: Should be an instance of GranularityType"
ErrChild == "ValueError: ODM object can only receive ClinicalData, Study or AdminData object"
\* a second Study or AdminData was refused (the rejecting policy)
ErrDuplicate == "rejected: the single child is already attached"

\* ------------------------------------------------------------------------
\* Property setters.  Each returns the error raised (NoErr when none) and
\* the value the private attribute holds afterwards.
\* ------------------------------------------------------------------------
\* bug variant: the membership test is dropped
odm_version_set_unchecked(old, value) == [err |-> NoErr, val |-> value]

odm_version_set(old, value) ==
    IF ~InValidVersions(value)
    THEN [err |-> ErrVersion, val |-> old]
    ELSE [err |-> NoErr, val |-> value]

\* bug variant: the text is taken with str() instead of isoformat()
as_of_datetime_set_str(old, value) ==
    IF ~IsDate(value)
    THEN [err |-> ErrAsOf, val |-> old]
    ELSE [err |-> NoErr, val |-> PyStr(pystr(value))]

as_of_datetime_set(old, value) ==
    IF ~IsDate(value)
    THEN [err |-> ErrAsOf, val |-> old]
    ELSE IF IsDate(value)
         THEN [err |-> NoErr, val |-> PyStr(isoformat(value))]
         ELSE [err |-> NoErr, val |-> old]

granularity_type_set(old, value) ==
    IF ~IsGranularityType(value)
    THEN [err |-> ErrGranularity, val |-> old]
    ELSE [err |-> NoErr, val |-> value]

\* ------------------------------------------------------------------------
\* ODMElement helpers used by <<
\* ------------------------------------------------------------------------
\* ODMElement.set_list_attribute: a ClinicalData is appended to the list;
\* several are allowed and the order of attachment is kept
set_list_attribute(val, other, trigger) ==
    IF ~trigger THEN [err |-> NoErr, val |-> val]
    ELSE [err |-> NoErr, val |-> Append(val, other)]

\* What ODMElement.set_single_attribute does with a second Study or
\* AdminData is described in two ways: it refuses it, or it stores it in
\* place of the first.  Its code is not part of the sources read here, so a
\* call may take either way.
SinglePolicies == {"reject", "replace"}

set_single_attribute(cur, other, trigger, policy) ==
    IF ~trigger THEN [err |-> NoErr, val |-> cur]
    ELSE IF cur = PyNone THEN [err |-> NoErr, val |-> other]
    ELSE IF policy = "reject" THEN [err |-> ErrDuplicate, val |-> cur]
    ELSE [err |-> NoErr, val |-> other]

\* bug variant: the isinstance check is dropped, an unknown object is ignored
lshift_untyped(cd, st, ad, other, policy) ==
    LET l == set_list_attribute(cd, other, IsClinicalData(other))
        s == set_single_attribute(st, other, IsStudy(other), policy)
        a == set_single_attribute(ad, other, IsAdminData(other), policy)
    IN  IF l.err # NoErr
        THEN [err |-> l.err, clinical_data |-> cd, study |-> st, admindata |-> ad, ret |-> PyNone]
        ELSE IF s.err # NoErr
        THEN [err |-> s.err, clinical_data |-> l.val, study |-> st, admindata |-> ad, ret |-> PyNone]
        ELSE IF a.err # NoErr
        THEN [err |-> a.err, clinical_data |-> l.val, study |-> s.val, admindata |-> ad, ret |-> PyNone]
        ELSE [err |-> NoErr, clinical_data |-> l.val, study |-> s.val, admindata |-> a.val, ret |-> other]

\* ODM.__lshift__ on the three child attributes: the error raised, the
\* attributes afterwards and the value returned.  policy is the way the
\* single-attribute helper takes in this call.
lshift(cd, st, ad, other, policy) ==
    IF ~(IsClinicalData(other) \/ IsStudy(other) \/ IsAdminData(other))
    THEN [err |-> ErrChild, clinical_data |-> cd, study |-> st, admindata |-> ad, ret |-> PyNone]
    ELSE LET l == set_list_attribute(cd, other, IsClinicalData(other))
             s == set_single_attribute(st, other, IsStudy(other), policy)
             a == set_single_attribute(ad, other, IsAdminData(other), policy)
         IN  IF l.err # NoErr
             THEN [err |-> l.err, clinical_data |-> cd, study |-> st, admindata |-> ad, ret |-> PyNone]
             ELSE IF s.err # NoErr
             THEN [err |-> s.err, clinical_data |-> l.val, study |-> st, admindata |-> ad, ret |-> PyNone]
             ELSE IF a.err # NoErr
             THEN [err |-> a.err, clinical_data |-> l.val, study |-> s.val, admindata |-> ad, ret |-> PyNone]
             ELSE [err |-> NoErr, clinical_data |-> l.val, study |-> s.val, admindata |-> a.val, ret |-> other]

\* ------------------------------------------------------------------------
\* State: the attributes of the ODM instance, and what the caller observed
\* ------------------------------------------------------------------------
VARIABLES
    inst,                   \* "none": not constructed, "live", "failed": __init__ raised
    originator, description, creationdatetime,
    source_system, source_system_version,
    clinical_data, study, filetype, admindata, fileoid,
    granularity_type, odm_version, as_of_datetime,
    last,                   \* the last call: its name, its argument, the error it raised
    ret,                    \* what the last call returned (PyNone if it raised)
    pristine,               \* the constructor arguments, as long as no property has
                            \* been assigned since construction; PyNone otherwise
    attached,               \* the ClinicalData objects attached so far, in order
    renders                 \* the number of renders since the last other call

fields == <<originator, description, creationdatetime, source_system,
            source_system_version, clinical_data, study, filetype, admindata,
            fileoid, granularity_type, odm_version, as_of_datetime>>
vars == <<inst, fields, last, ret, pristine, attached, renders>>

\* ------------------------------------------------------------------------
\* Inputs
\* ------------------------------------------------------------------------
AllClinicalData == Granularity("AllClinicalData")
ADate == PyDate(2020, 1, 5)
ADateTime == PyDateTime(2019, 12, 31, 23, 59, 7, 0)
AMicroDateTime == PyDateTime(2021, 6, 1, 0, 0, 0, 250)
UUIDs == {"7d8c1f0e-3b7a-4f8e-9c56-0a1b2c3d4e5f"}
Nows == {"2022-02-02T10:00:00"}

\* what the caller passes when only the originator is given
DefaultArgs ==
    [originator |-> PyStr("SPONSOR"), description |-> PyStr(""),
     creationdatetime |-> PyNone, fileoid |-> PyNone, filetype |-> PyNone,
     granularity |-> AllClinicalData, source_system |-> PyNone,
     source_system_version |-> PyNone, odm_version |-> PyNone,
     as_of_datetime |-> PyNone]

FullArgs ==
    [originator |-> PyStr("SPONSOR"), description |-> PyStr("A description"),
     creationdatetime |-> PyStr("2020-01-01T00:00:00"), fileoid |-> PyStr("F1"),
     filetype |-> PyStr("Snapshot"), granularity |-> AllClinicalData,
     source_system |-> PyStr("Battlestar"), source_system_version |-> PyStr("1.04"),
     odm_version |-> PyStr("1.3.2"), as_of_datetime |-> AMicroDateTime]

VersionArgs == {PyStr(""), PyStr("9.9")}
AsOfArgs == {PyInt(0), PyStr("2020-01-05")}
GranularityArgs == {PyNone, PyStr("SingleSubject")}

CtorArgs ==
    {DefaultArgs, FullArgs}
    \cup {[DefaultArgs EXCEPT !.odm_version = v] : v \in VersionArgs}
    \cup {[DefaultArgs EXCEPT !.as_of_datetime = d] : d \in AsOfArgs}
    \cup {[DefaultArgs EXCEPT !.granularity = g] : g \in GranularityArgs}
    \cup {[DefaultArgs EXCEPT !.odm_version = PyStr("9.9"), !.as_of_datetime = PyInt(7)]}

SetVersionArgs ==
    {VALID_ODM_VERSIONS[i] : i \in DOMAIN VALID_ODM_VERSIONS} \cup {PyStr("9.9")}
SetAsOfArgs == {ADate, ADateTime, PyStr("2020-01-05")}
SetGranularityArgs == {AllClinicalData, PyStr("SingleSubject")}
Children ==
    {Obj("ClinicalData", i) : i \in {1, 2, 3}}
    \cup {Obj("Study", i) : i \in 1..NumObj}
    \cup {Obj("AdminData", 1)}
Others == {PyInt(1)}

\* ------------------------------------------------------------------------
\* ODM.__init__
\* ------------------------------------------------------------------------
\* bug variant: the granularity argument is not assigned
init_no_granularity(a, uuid, now) ==
    LET v == IF Truthy(a.odm_version)
             THEN odm_version_set(PyStr("1.3"), a.odm_version)
             ELSE [err |-> NoErr, val |-> PyStr("1.3")]
        d == IF Truthy(a.as_of_datetime)
             THEN as_of_datetime_set(PyNone, a.as_of_datetime)
             ELSE [err |-> NoErr, val |-> PyNone]
    IN  [err |-> IF v.err # NoErr THEN v.err ELSE d.err,
         originator |-> a.originator,
         description |-> a.description,
         creationdatetime |-> IF Truthy(a.creationdatetime) THEN a.creationdatetime ELSE PyStr(now),
         source_system |-> a.source_system,
         source_system_version |-> a.source_system_version,
         clinical_data |-> <<>>,
         study |-> PyNone,
         filetype |-> IF a.filetype = PyNone THEN FILETYPE_TRANSACTIONAL ELSE FILETYPE_SNAPSHOT,
         admindata |-> PyNone,
         fileoid |-> IF a.fileoid = PyNone THEN PyStr(uuid) ELSE a.fileoid,
         granularity_type |-> PyNone, odm_version |-> v.val, as_of_datetime |-> d.val]

\* The attributes __init__ assigns, and the error of the first setter that
\* raises (the setters run in the order granularity, version, as-of; one
\* that follows a raising setter is not run).
init(a, uuid, now) ==
    LET g == IF Truthy(a.granularity)
             THEN granularity_type_set(PyNone, a.granularity)
             ELSE [err |-> NoErr, val |-> PyNone]
        v == IF Truthy(a.odm_version)
             THEN odm_version_set(PyStr("1.3"), a.odm_version)
             ELSE [err |-> NoErr, val |-> PyStr("1.3")]
        d == IF Truthy(a.as_of_datetime)
             THEN as_of_datetime_set(PyNone, a.as_of_datetime)
             ELSE [err |-> NoErr, val |-> PyNone]
    IN  [err |-> IF g.err # NoErr THEN g.err ELSE IF v.err # NoErr THEN v.err ELSE d.err,
         originator |-> a.originator,
         description |-> a.description,
         creationdatetime |-> IF Truthy(a.creationdatetime) THEN a.creationdatetime ELSE PyStr(now),
         source_system |-> a.source_system,
         source_system_version |-> a.source_system_version,
         clinical_data |-> <<>>,
         study |-> PyNone,
         filetype |-> IF a.filetype = PyNone THEN FILETYPE_TRANSACTIONAL ELSE FILETYPE_SNAPSHOT,
         admindata |-> PyNone,
         fileoid |-> IF a.fileoid = PyNone THEN PyStr(uuid) ELSE a.fileoid,
         granularity_type |-> g.val, odm_version |-> v.val, as_of_datetime |-> d.val]

\* ------------------------------------------------------------------------
\* ODM.build: the element tree
\* ------------------------------------------------------------------------
\* the element a child renders into the builder
child_build(c) == [tag |-> c.t, attrs |-> <<>>, children |-> <<>>, of |-> c]

Opt(cond, name, value) == IF cond THEN << <<name, value>> >> ELSE <<>>

\* the attribute dictionary of the root element, in insertion order
params ==
    << <<"ODMVersion", odm_version>>,
       <<"FileType", filetype>>,
       <<"CreationDateTime", creationdatetime>>,
       <<"Originator", originator>>,
       <<"FileOID", fileoid>>,
       <<"xmlns", PyStr("http://www.cdisc.org/ns/odm/v1.3")>> >>
    \o Opt(Truthy(granularity_type), "Granularity", PyStr(granularity_type.s))
    \o Opt(Truthy(source_system), "SourceSystem", source_system)
    \o Opt(Truthy(source_system_version), "SourceSystemVersion", source_system_version)
    \o << <<"xmlns:mdsol", PyStr("http://www.mdsol.com/ns/odm/metadata")>> >>
    \o Opt(Truthy(description), "Description", description)
    \o Opt(Truthy(as_of_datetime), "AsOfDateTime", as_of_datetime)

\* bug variant: AdminData is emitted before the ClinicalData sections
build_admin_first ==
    [tag |-> "ODM", attrs |-> params, of |-> PyNone,
     children |->
        (IF study # PyNone THEN <<child_build(study)>> ELSE <<>>)
        \o (IF admindata # PyNone THEN <<child_build(admindata)>> ELSE <<>>)
        \o [i \in DOMAIN clinical_data |-> child_build(clinical_data[i])]]

build ==
    [tag |-> "ODM", attrs |-> params, of |-> PyNone,
     children |->
        (IF study # PyNone THEN <<child_build(study)>> ELSE <<>>)
        \o [i \in DOMAIN clinical_data |-> child_build(clinical_data[i])]
        \o (IF admindata # PyNone THEN <<child_build(admindata)>> ELSE <<>>)]

\* ------------------------------------------------------------------------
\* Actions
\* ------------------------------------------------------------------------
Call(op, arg, err) == [op |-> op, arg |-> arg, err |-> err]

Init ==
    /\ inst = "none"
    /\ originator = PyNone /\ description = PyNone /\ creationdatetime = PyNone
    /\ source_system = PyNone /\ source_system_version = PyNone
    /\ clinical_data = <<>> /\ study = PyNone /\ filetype = PyNone
    /\ admindata = PyNone /\ fileoid = PyNone
    /\ granularity_type = PyNone /\ odm_version = PyNone /\ as_of_datetime = PyNone
    /\ last = Call("none", PyNone, NoErr)
    /\ ret = PyNone
    /\ pristine = PyNone
    /\ attached = <<>>
    /\ renders = 0

\* ODM(originator, ...): a call that raises yields no instance
Construct ==
    /\ inst # "live"
    /\ \E a \in CtorArgs, uuid \in UUIDs, now \in Nows :
         LET r == init(a, uuid, now)
         IN  /\ last' = Call("__init__", a, r.err)
             /\ ret' = PyNone
             /\ IF r.err = NoErr
                THEN /\ inst' = "live"
                     /\ originator' = r.originator
                     /\ description' = r.description
                     /\ creationdatetime' = r.creationdatetime
                     /\ source_system' = r.source_system
                     /\ source_system_version' = r.source_system_version
                     /\ clinical_data' = r.clinical_data
                     /\ study' = r.study
                     /\ filetype' = r.filetype
                     /\ admindata' = r.admindata
                     /\ fileoid' = r.fileoid
                     /\ granularity_type' = r.granularity_type
                     /\ odm_version' = r.odm_version
                     /\ as_of_datetime' = r.as_of_datetime
                     /\ pristine' = a
                ELSE /\ inst' = "failed"
                     /\ UNCHANGED <<fields, pristine>>
             /\ attached' = <<>>
             /\ renders' = 0

\* odm.odm_version = value
SetOdmVersion ==
    /\ inst = "live"
    /\ \E value \in SetVersionArgs :
         LET r == odm_version_set(odm_version, value)
         IN  /\ odm_version' = r.val
             /\ last' = Call("odm_version", value, r.err)
             /\ pristine' = IF r.err = NoErr THEN PyNone ELSE pristine
    /\ ret' = PyNone
    /\ renders' = 0
    /\ UNCHANGED <<inst, originator, description, creationdatetime, source_system,
                   source_system_version, clinical_data, study, filetype, admindata,
                   fileoid, granularity_type, as_of_datetime, attached>>

\* odm.as_of_datetime = value
SetAsOfDateTime ==
    /\ inst = "live"
    /\ \E value \in SetAsOfArgs :
         LET r == as_of_datetime_set(as_of_datetime, value)
         IN  /\ as_of_datetime' = r.val
             /\ last' = Call("as_of_datetime", value, r.err)
             /\ pristine' = IF r.err = NoErr THEN PyNone ELSE pristine
    /\ ret' = PyNone
    /\ renders' = 0
    /\ UNCHANGED <<inst, originator, description, creationdatetime, source_system,
                   source_system_version, clinical_data, study, filetype, admindata,
                   fileoid, granularity_type, odm_version, attached>>

\* odm.granularity_type = value
SetGranularityType ==
    /\ inst = "live"
    /\ \E value \in SetGranularityArgs :
         LET r == granularity_type_set(granularity_type, value)
         IN  /\ granularity_type' = r.val
             /\ last' = Call("granularity_type", value, r.err)
             /\ pristine' = IF r.err = NoErr THEN PyNone ELSE pristine
    /\ ret' = PyNone
    /\ renders' = 0
    /\ UNCHANGED <<inst, originator, description, creationdatetime, source_system,
                   source_system_version, clinical_data, study, filetype, admindata,
                   fileoid, odm_version, as_of_datetime, attached>>

\* the helper's way matters only when it is triggered
PoliciesFor(other) ==
    IF IsStudy(other) \/ IsAdminData(other) THEN SinglePolicies ELSE {"reject"}

\* odm << other
LShift ==
    /\ inst = "live"
    /\ renders' = 0
    /\ \E other \in Children \cup Others :
       \E policy \in PoliciesFor(other) :
         LET r == lshift(clinical_data, study, admindata, other, policy)
         IN  /\ Len(r.clinical_data) <= MaxClinical
             /\ clinical_data' = r.clinical_data
             /\ study' = r.study
             /\ admindata' = r.admindata
             /\ ret' = r.ret
             /\ last' = Call("__lshift__", other, r.err)
             /\ attached' = IF r.err = NoErr /\ IsClinicalData(other)
                            THEN Append(attached, other) ELSE attached
    /\ UNCHANGED <<inst, originator, description, creationdatetime, source_system,
                   source_system_version, filetype, fileoid, granularity_type,
                   odm_version, as_of_datetime, pristine>>

\* bug variant: every render stamps a new file identifier
RenderRestamps ==
    /\ inst = "live"
    /\ fileoid' = PyStr("0b9f2a44-6c1d-4e2b-8a77-5f6e7d8c9b0a")
    /\ ret' = build
    /\ last' = Call("getroot", PyNone, NoErr)
    /\ renders' = IF renders < MaxRenders THEN renders + 1 ELSE renders
    /\ UNCHANGED <<inst, originator, description, creationdatetime, source_system,
                   source_system_version, clinical_data, study, filetype, admindata,
                   granularity_type, odm_version, as_of_datetime, pristine, attached>>

\* bug variant: the tree carries the time of the render as CreationDateTime
\* instead of the stored one; no attribute is written
RenderReadsClock ==
    /\ inst = "live"
    /\ \E now \in {"2022-02-02T10:00:00", "2022-02-02T10:00:01"} :
         ret' = [build EXCEPT !.attrs =
                    [i \in DOMAIN @ |->
                        IF @[i][1] = "CreationDateTime"
                        THEN <<"CreationDateTime", PyStr(now)>> ELSE @[i]]]
    /\ last' = Call("getroot", PyNone, NoErr)
    /\ renders' = IF renders < MaxRenders THEN renders + 1 ELSE renders
    /\ UNCHANGED <<inst, fields, pristine, attached>>

\* odm.getroot() (and str(odm), which serialises the same tree)
Render ==
    /\ inst = "live"
    /\ ret' = build
    /\ last' = Call("getroot", PyNone, NoErr)
    /\ renders' = IF renders < MaxRenders THEN renders + 1 ELSE renders
    /\ UNCHANGED <<inst, fields, pristine, attached>>

Next ==
    \/ Construct
    \/ SetOdmVersion
    \/ SetAsOfDateTime
    \/ SetGranularityType
    \/ LShift
    \/ Render

Spec == Init /\ [][Next]_vars

TypeOK ==
    /\ inst \in {"none", "live", "failed"}
    /\ Len(clinical_data) <= MaxClinical
    /\ renders \in 0..MaxRenders

\* ------------------------------------------------------------------------
\* Properties
\* ------------------------------------------------------------------------
HasAttr(tree, name) == \E i \in DOMAIN tree.attrs : tree.attrs[i][1] = name
AttrIs(tree, name, value) ==
    \E i \in DOMAIN tree.attrs : tree.attrs[i][1] = name /\ tree.attrs[i][2] = value
IsChild(v) == IsClinicalData(v) \/ IsStudy(v) \/ IsAdminData(v)

\* C1: assigning odm_version stores every allow-listed string and raises for
\* any other value, leaving every attribute as it was; so the odm_version of
\* a live instance is always in the allow-list.
C1_OdmVersionGuarded ==
    /\ [](inst = "live" => InValidVersions(odm_version))
    /\ [][last'.op = "odm_version" =>
            IF InValidVersions(last'.arg)
            THEN last'.err = NoErr /\ odm_version' = last'.arg
            ELSE last'.err = ErrVersion /\ fields' = fields]_vars

C1_Witness ==
    /\ last = Call("odm_version", PyStr("9.9"), ErrVersion)
    /\ odm_version = PyStr("1.2.1")

\* C2: construction raises, and yields no instance, for every odm_version
\* argument outside the allow-list and every as_of_datetime argument that
\* is not a date, the empty string and 0 included.
C2_ConstructionValidates ==
    (/\ last.op = "__init__"
     /\ \/ last.arg.odm_version # PyNone /\ ~InValidVersions(last.arg.odm_version)
        \/ last.arg.as_of_datetime # PyNone /\ ~IsDate(last.arg.as_of_datetime))
    => (last.err # NoErr /\ inst = "failed")

\* C3 as stated: rendering an instance constructed with only an originator
\* omits Description, Granularity, SourceSystem, SourceSystemVersion and
\* AsOfDateTime and carries the seven fixed attributes.
C3_DefaultsOmitGranularity ==
    (last.op = "getroot" /\ pristine = DefaultArgs) =>
        /\ ~HasAttr(ret, "Description")
        /\ ~HasAttr(ret, "Granularity")
        /\ ~HasAttr(ret, "SourceSystem")
        /\ ~HasAttr(ret, "SourceSystemVersion")
        /\ ~HasAttr(ret, "AsOfDateTime")
        /\ HasAttr(ret, "FileOID")
        /\ AttrIs(ret, "ODMVersion", PyStr("1.3"))
        /\ AttrIs(ret, "FileType", PyStr("Transactional"))
        /\ HasAttr(ret, "CreationDateTime")
        /\ HasAttr(ret, "Originator")
        /\ HasAttr(ret, "xmlns")
        /\ HasAttr(ret, "xmlns:mdsol")

\* C3 amended: rendering an instance constructed with only an originator
\* omits Description, SourceSystem, SourceSystemVersion and AsOfDateTime,
\* and carries Granularity ("AllClinicalData", the default of the
\* constructor) besides FileOID, ODMVersion ("1.3"), FileType
\* ("Transactional"), CreationDateTime, Originator, xmlns and xmlns:mdsol.
C3_DefaultsRender ==
    (last.op = "getroot" /\ pristine = DefaultArgs) =>
        /\ ~HasAttr(ret, "Description")
        /\ ~HasAttr(ret, "SourceSystem")
        /\ ~HasAttr(ret, "SourceSystemVersion")
        /\ ~HasAttr(ret, "AsOfDateTime")
        /\ AttrIs(ret, "Granularity", PyStr("AllClinicalData"))
        /\ \E u \in UUIDs : AttrIs(ret, "FileOID", PyStr(u))
        /\ AttrIs(ret, "ODMVersion", PyStr("1.3"))
        /\ AttrIs(ret, "FileType", PyStr("Transactional"))
        /\ \E t \in Nows : AttrIs(ret, "CreationDateTime", PyStr(t))
        /\ AttrIs(ret, "Originator", PyStr("SPONSOR"))
        /\ AttrIs(ret, "xmlns", PyStr("http://www.cdisc.org/ns/odm/v1.3"))
        /\ AttrIs(ret, "xmlns:mdsol", PyStr("http://www.mdsol.com/ns/odm/metadata"))

C3_Witness ==
    /\ last.op = "getroot"
    /\ pristine = DefaultArgs
    /\ HasAttr(ret, "Granularity")

\* C4: whatever the order of the attachments, the rendered children are the
\* Study if one is attached, then the attached ClinicalData, each once and
\* in the order of attachment, then the AdminData if one is attached.
C4_ChildOrder ==
    last.op = "getroot" =>
        ret.children =
            (IF study # PyNone THEN <<child_build(study)>> ELSE <<>>)
            \o [i \in DOMAIN attached |-> child_build(attached[i])]
            \o (IF admindata # PyNone THEN <<child_build(admindata)>> ELSE <<>>)

C4_Witness ==
    /\ last.op = "getroot"
    /\ attached = <<Obj("ClinicalData", 2), Obj("ClinicalData", 3), Obj("ClinicalData", 1)>>
    /\ study # PyNone
    /\ admindata # PyNone
    /\ Len(ret.children) = 5

\* C5: attaching anything that is not a Study, ClinicalData or AdminData
\* raises the error that names the three classes and leaves study,
\* admindata and clinical_data as they were.
C5_RejectsOtherTypes ==
    [][(last'.op = "__lshift__" /\ ~IsChild(last'.arg)) =>
         /\ last'.err = ErrChild
         /\ UNCHANGED <<study, admindata, clinical_data>>]_vars

C5_Witness ==
    /\ last = Call("__lshift__", PyInt(1), ErrChild)
    /\ study # PyNone
    /\ clinical_data # <<>>

\* C6: a render changes no attribute of the instance, and a second render
\* with no other call in between returns the tree the first one returned.
C6_RenderPure ==
    [][last'.op = "getroot" =>
         /\ fields' = fields
         /\ (renders >= 1 /\ renders' = renders + 1) => ret' = ret]_vars

C6_Witness ==
    /\ last.op = "getroot"
    /\ renders = 2
    /\ pristine = FullArgs
    /\ AttrIs(ret, "FileOID", PyStr("F1"))
    /\ Len(ret.children) > 1

\* C7: the file identifier is the one supplied to the constructor, or a
\* generated UUID when none is supplied, and no call on the live instance
\* changes it.
C7_FileOidFixed ==
    /\ []((last.op = "__init__" /\ last.err = NoErr) =>
            IF last.arg.fileoid = PyNone
            THEN \E u \in UUIDs : fileoid = PyStr(u)
            ELSE fileoid = last.arg.fileoid)
    /\ [][inst = "live" => fileoid' = fileoid]_vars

C7_Witness ==
    /\ last.op = "getroot"
    /\ \E u \in UUIDs : fileoid = PyStr(u)
    /\ pristine = PyNone
    /\ attached # <<>>

\* the ISO 8601 text of the date inputs
IsoText(v) ==
    CASE v = ADate -> "2020-01-05"
      [] v = ADateTime -> "2019-12-31T23:59:07"
      [] v = AMicroDateTime -> "2021-06-01T00:00:00.000250"

\* C8: assigning a date or date-time to as_of_datetime stores its ISO text;
\* assigning any other value raises and keeps the stored value.
C8_AsOfGuarded ==
    [][last'.op = "as_of_datetime" =>
         IF IsDate(last'.arg)
         THEN last'.err = NoErr /\ as_of_datetime' = PyStr(IsoText(last'.arg))
         ELSE last'.err = ErrAsOf /\ as_of_datetime' = as_of_datetime]_vars

C8_Witness ==
    /\ last = Call("as_of_datetime", PyStr("2020-01-05"), ErrAsOf)
    /\ as_of_datetime = PyStr("2019-12-31T23:59:07")

====
